---- MODULE Spec2Model ----
(***************************************************************************)
(* A model of static/management.js, the client library of the Galene       *)
(* administrative API, together with the server side of the wire contract  *)
(* it talks to.  Each client runs one call at a time; a call suspends at   *)
(* every fetch and resumes when the response (or a transport failure) is   *)
(* there.  The server handles one request at a time.                       *)
(***************************************************************************)
EXTENDS Integers, Sequences, FiniteSets, TLC

(***************************************************************************)
(* Bounds of the model.                                                    *)
(***************************************************************************)
MaxCalls == 2          \* calls started in one behaviour
MaxVal == 1            \* JSON member values are 0..MaxVal
MaxNames == 2          \* names in a listing

Clients == {"c1", "c2"}
Keys == {"a", "b"}
Vals == 0..MaxVal

(***************************************************************************)
(* JSON documents.  A document maps every key to a value or to Missing     *)
(* (the key is not a member).  A patch can also carry Null.  NoTag is the  *)
(* undefined or empty version token, falsy in JavaScript.                  *)
(***************************************************************************)
Missing == -2
Null == -1
NoTag == 0

Docs == [Keys -> Vals \cup {Missing}]
Patches == [Keys -> Vals \cup {Null, Missing}]
EmptyDoc == [k \in Keys |-> Missing]

\* The inputs of the concurrent specification: one document, and the patches
\* that set one key.
NarrowDocs == {[k \in Keys |-> 0]}
NarrowPatches ==
    {[k \in Keys |-> IF k = j THEN MaxVal ELSE Missing] : j \in Keys}

\* JavaScript truthiness of a member value: null, undefined and 0 are falsy.
Truthy(v) == v \notin {Null, Missing, 0}

(***************************************************************************)
(* URLs built by the path builders, for the one group "g" and user "u".    *)
(***************************************************************************)
GroupsURL == "/galene-api/0/.groups/"
GroupURL == "/galene-api/0/.groups/g"
GroupDirURL == "/galene-api/0/.groups/g/"
UsersURL == "/galene-api/0/.groups/g/.users/"
UserURL == "/galene-api/0/.groups/g/.users/u"
UserDirURL == "/galene-api/0/.groups/g/.users/u/"
PasswordURL == "/galene-api/0/.groups/g/.users/u/.password"

Kinds == {"group", "user"}
ListURL(kind) == IF kind = "group" THEN GroupsURL ELSE UsersURL
GetURL(kind) == IF kind = "group" THEN GroupURL ELSE UserURL
DirURL(kind) == IF kind = "group" THEN GroupDirURL ELSE UserDirURL

(***************************************************************************)
(* Header names, character by character: fetch validates them.             *)
(***************************************************************************)
IfMatch == <<"I", "f", "-", "M", "a", "t", "c", "h">>
IfNoneMatch ==
    <<"I", "f", "-", "N", "o", "n", "e", "-", "M", "a", "t", "c", "h">>
ContentType == <<"C", "o", "n", "t", "e", "n", "t", "-", "T", "y", "p", "e">>
ContentTypeColon == ContentType \o <<":">>
Authorization ==
    <<"A", "u", "t", "h", "o", "r", "i", "z", "a", "t", "i", "o", "n">>

\* The characters of an HTTP token (RFC 9110, tchar), the two quote marks
\* left out.
TChar ==
    {"a", "b", "c", "d", "e", "f", "g", "h", "i", "j", "k", "l", "m", "n",
     "o", "p", "q", "r", "s", "t", "u", "v", "w", "x", "y", "z",
     "A", "B", "C", "D", "E", "F", "G", "H", "I", "J", "K", "L", "M", "N",
     "O", "P", "Q", "R", "S", "T", "U", "V", "W", "X", "Y", "Z",
     "0", "1", "2", "3", "4", "5", "6", "7", "8", "9",
     "!", "#", "$", "%", "&", "*", "+", "-", ".", "^", "_", "|", "~"}

\* fetch rejects with a TypeError, and sends nothing, when a header name is
\* not a token.
IsHeaderName(n) == Len(n) > 0 /\ \A i \in 1..Len(n) : n[i] \in TChar

NoHeaders == [n \in {} |-> ""]
HasHeader(r, n) == n \in DOMAIN r.headers

(***************************************************************************)
(* Bodies, requests, responses, errors and results.                        *)
(***************************************************************************)
NoBody == [type |-> "none", json |-> EmptyDoc, text |-> <<>>]
JsonBody(d) == [type |-> "json", json |-> d, text |-> <<>>]
TextBody(t) == [type |-> "text", json |-> EmptyDoc, text |-> t]

\* JSON.stringify of an object, and the parse the other side makes of it.
Stringify(d) == JsonBody(d)
ParseJson(b) == b.json

Request(method, url, headers, body, credentials) ==
    [method |-> method, url |-> url, headers |-> headers, body |-> body,
     credentials |-> credentials]

Response(status, text, etag, body) ==
    [kind |-> "http", status |-> status, statusText |-> text, etag |-> etag,
     body |-> body]
\* fetch rejected: the transport failed.
NetworkFailure == [kind |-> "failed", status |-> 0, statusText |-> "",
                   etag |-> NoTag, body |-> NoBody]
\* Response.ok
Ok(r) == r.kind = "http" /\ r.status \in 200..299

NoError == [name |-> "none", message |-> "", status |-> 0, text |-> ""]
ServerSaid == "The server said: "
NoETagError ==
    [name |-> "Error", message |-> "The server didn't return an ETag",
     status |-> 0, text |-> ""]
MismatchError ==
    [name |-> "Error", message |-> "The server returned a mismatched ETag",
     status |-> 0, text |-> ""]
InvalidNameError ==
    [name |-> "TypeError", message |-> "Invalid name", status |-> 0,
     text |-> ""]
FetchFailedError ==
    [name |-> "TypeError", message |-> "Failed to fetch", status |-> 0,
     text |-> ""]

\* httpError without the switch on the status.
httpError_NoDefaults(r) ==
    [name |-> "Error", message |-> ServerSaid, status |-> r.status,
     text |-> r.statusText]

\* httpError: the message is `The server said: ${status} ${s}`.
httpError(r) ==
    LET s == IF r.statusText = ""
             THEN CASE r.status = 401 -> "Unauthorised"
                    [] r.status = 403 -> "Forbidden"
                    [] r.status = 404 -> "Not Found"
                    [] OTHER -> ""
             ELSE r.statusText
    IN  [name |-> "Error", message |-> ServerSaid, status |-> r.status,
         text |-> s]

\* What a rejected or failed fetch throws, as seen by the awaiting function.
Thrown(r) == IF r.kind = "failed" THEN FetchFailedError ELSE httpError(r)

\* The Conflict class of the error taxonomy.
IsConflict(e) ==
    \/ e.message = ServerSaid /\ e.status \in {412, 428}
    \/ e = MismatchError

NoObject == [etag |-> NoTag, data |-> EmptyDoc]
NoResult == [state |-> "none", error |-> NoError, object |-> NoObject,
             strings |-> <<>>]
Success == [NoResult EXCEPT !.state = "ok"]
Failure(e) == [NoResult EXCEPT !.state = "error", !.error = e]

(***************************************************************************)
(* The requests the library builds.                                        *)
(***************************************************************************)
\* An optional object argument: given is FALSE for undefined.
Undefined == [given |-> FALSE, obj |-> EmptyDoc]
Given(d) == [given |-> TRUE, obj |-> d]

listRequest(url) == Request("GET", url, NoHeaders, NoBody, "same-origin")

createRequest(url, values) ==
    LET v == IF ~values.given THEN EmptyDoc ELSE values.obj
    IN  Request("PUT", url,
                (IfNoneMatch :> "*") @@ (ContentTypeColon :> "application/json"),
                Stringify(v), "same-origin")

getRequest(url, etag) ==
    Request("GET", url,
            IF etag # NoTag THEN (IfMatch :> etag) ELSE NoHeaders,
            NoBody, "same-origin")

\* deleteRequest with the etag forgotten.
deleteRequest_NoPrecondition(url, etag) ==
    Request("DELETE", url, NoHeaders, NoBody, "same-origin")

\* deleteRequest with the If-Match header set whether or not an etag is given.
deleteRequest_AlwaysIfMatch(url, etag) ==
    Request("DELETE", url, (IfMatch :> etag), NoBody, "same-origin")

deleteRequest(url, etag) ==
    Request("DELETE", url,
            IF etag # NoTag THEN (IfMatch :> etag) ELSE NoHeaders,
            NoBody, "same-origin")

\* ApplyValues starting from an empty object and not from the data read.
ApplyValues_DropsUnmentioned(data, values) ==
    [k \in Keys |-> IF Truthy(values[k]) THEN values[k] ELSE Missing]

\* The loop of editObject over the keys of values.
ApplyValues(data, values) ==
    [k \in Keys |->
        IF values[k] = Missing THEN data[k]
        ELSE IF Truthy(values[k]) THEN values[k]
        ELSE Missing]

\* putRequest without the If-Match header.
putRequest_Unconditional(url, old, data) ==
    Request("PUT", url, (ContentType :> "application/json"), NoBody,
            "same-origin")

\* The write of editObject: no body is given to fetch.
putRequest(url, old, data) ==
    Request("PUT", url,
            (ContentType :> "application/json") @@ (IfMatch :> old.etag),
            NoBody, "same-origin")

\* btoa(user + ':' + oldpassword), kept as its three parts.
Btoa(user, pw) == <<"base64", user, ":", pw>>
NoPassword == ""
\* setPasswordRequest without options.credentials = 'omit'.
setPasswordRequest_KeepsCredentials(user, password, oldpassword) ==
    Request("POST", PasswordURL,
            IF oldpassword # NoPassword
            THEN (ContentType :> "text/plain")
                 @@ (Authorization :> <<"Basic ", Btoa(user, oldpassword)>>)
            ELSE (ContentType :> "text/plain"),
            TextBody(<<password>>), "same-origin")

setPasswordRequest(user, password, oldpassword) ==
    Request("POST", PasswordURL,
            IF oldpassword # NoPassword
            THEN (ContentType :> "text/plain")
                 @@ (Authorization :> <<"Basic ", Btoa(user, oldpassword)>>)
            ELSE (ContentType :> "text/plain"),
            TextBody(<<password>>),
            IF oldpassword # NoPassword THEN "omit" ELSE "same-origin")

\* What fetch does with a request: reject at once, or send it.
FetchRejects(r) == \E n \in DOMAIN r.headers : ~IsHeaderName(n)

\* text.split('\n'), on a text kept as a sequence of characters.
LF == "\n"
RECURSIVE SplitLF(_)
SplitLF(t) ==
    IF \A i \in 1..Len(t) : t[i] # LF THEN <<t>>
    ELSE LET i == CHOOSE j \in 1..Len(t) :
                      t[j] = LF /\ \A h \in 1..(j - 1) : t[h] # LF
         IN  <<SubSeq(t, 1, i - 1)>> \o SplitLF(SubSeq(t, i + 1, Len(t)))

\* ListStrings without the pop of a final empty string.
ListStrings_KeepsLast(text) == SplitLF(text)

\* The tail of listObjects: drop a final empty string.
ListStrings(text) ==
    LET strings == SplitLF(text)
    IN  IF strings[Len(strings)] = <<>>
        THEN SubSeq(strings, 1, Len(strings) - 1)
        ELSE strings

(***************************************************************************)
(* The server side of the wire contract.  A resource is a document with    *)
(* its version token; every accepted write makes a new revision and gets   *)
(* a token never used before.                                              *)
(***************************************************************************)
Absent == [exists |-> FALSE, data |-> EmptyDoc, etag |-> NoTag]
Resource(d, t) == [exists |-> TRUE, data |-> d, etag |-> t]

Passwords == {"p1", "p2"}

\* A URL with or without its trailing slash names the same resource.
ResourceOf(url) ==
    CASE url \in {GroupURL, GroupDirURL} -> "group"
      [] url \in {UserURL, UserDirURL} -> "user"
      [] OTHER -> "none"

ReasonPhrase(status) ==
    CASE status = 200 -> "OK"
      [] status = 204 -> "No Content"
      [] status = 400 -> "Bad Request"
      [] status = 401 -> "Unauthorized"
      [] status = 404 -> "Not Found"
      [] status = 412 -> "Precondition Failed"
      [] OTHER -> ""

\* HTTP/2 and HTTP/3 carry no reason phrase: statusText is then empty.  The
\* library reads the statusText of failed responses only.
StatusTexts(status) ==
    IF status \in 200..299 THEN {ReasonPhrase(status)}
    ELSE {"", ReasonPhrase(status)}

\* An outcome of handling a request: the response and the server's new state.
Outcome(r, st, nt, pw) ==
    [resp |-> r, store |-> st, nextTag |-> nt, password |-> pw]

Replies(status, etag, body, st, nt, pw) ==
    {Outcome(Response(status, t, etag, body), st, nt, pw) :
        t \in StatusTexts(status)}

\* The names a collection lists, joined by line-feeds, with or without a
\* trailing line-feed.
RECURSIVE JoinLF(_)
JoinLF(names) ==
    IF Len(names) = 0 THEN <<>>
    ELSE IF Len(names) = 1 THEN names[1]
    ELSE names[1] \o <<LF>> \o JoinLF(Tail(names))

ListBodies(names) ==
    {JoinLF(names)} \cup
    (IF Len(names) > 0 THEN {JoinLF(names) \o <<LF>>} ELSE {})

ServeList(req, st, nt, pw) ==
    LET kind == IF req.url = GroupsURL THEN "group" ELSE "user"
        names == IF st[kind].exists
                 THEN <<IF kind = "group" THEN <<"g">> ELSE <<"u">>>>
                 ELSE <<>>
    IN  UNION {Replies(200, NoTag, TextBody(b), st, nt, pw) :
                  b \in ListBodies(names)}

\* A read.  If-Match lets the server short-circuit on a mismatch; a server
\* may also ignore it, or answer without an ETag header.
ServeGet(req, st, nt, pw) ==
    LET res == st[ResourceOf(req.url)]
        mismatch == HasHeader(req, IfMatch) /\ req.headers[IfMatch] # res.etag
    IN  IF ~res.exists THEN Replies(404, NoTag, NoBody, st, nt, pw)
        ELSE (IF mismatch THEN Replies(412, NoTag, NoBody, st, nt, pw) ELSE {})
             \cup Replies(200, res.etag, JsonBody(res.data), st, nt, pw)
             \cup Replies(200, NoTag, JsonBody(res.data), st, nt, pw)

\* Whether the preconditions of a write or delete fail.
PreconditionFails(req, res) ==
    \/ HasHeader(req, IfNoneMatch) /\ res.exists
    \/ HasHeader(req, IfMatch)
       /\ (~res.exists \/ req.headers[IfMatch] # res.etag)

\* A write.  The preconditions are checked first.  A write with a JSON body
\* stores it; a write with no body stores no content change, when the
\* server takes it at all.
ServePut(req, st, nt, pw) ==
    LET kind == ResourceOf(req.url)
        res == st[kind]
        accept(d) ==
            Replies(204, NoTag, NoBody,
                    [st EXCEPT ![kind] = Resource(d, nt)], nt + 1, pw)
    IN  IF PreconditionFails(req, res)
        THEN Replies(412, NoTag, NoBody, st, nt, pw)
        ELSE IF req.body.type = "json" THEN accept(ParseJson(req.body))
        ELSE Replies(400, NoTag, NoBody, st, nt, pw)
             \cup (IF res.exists THEN accept(res.data) ELSE {})

ServeDelete(req, st, nt, pw) ==
    LET kind == ResourceOf(req.url)
        res == st[kind]
    IN  IF ~res.exists THEN Replies(404, NoTag, NoBody, st, nt, pw)
        ELSE IF PreconditionFails(req, res)
        THEN Replies(412, NoTag, NoBody, st, nt, pw)
        ELSE Replies(204, NoTag, NoBody, [st EXCEPT ![kind] = Absent], nt, pw)

\* The password endpoint: the ambient credentials are the administrator's;
\* an Authorization header must carry the user's current password.
ServePassword(req, st, nt, pw) ==
    LET authorised ==
            IF HasHeader(req, Authorization)
            THEN req.headers[Authorization] = <<"Basic ", Btoa("u", pw)>>
            ELSE req.credentials # "omit"
    IN  IF ~st["user"].exists THEN Replies(404, NoTag, NoBody, st, nt, pw)
        ELSE IF ~authorised THEN Replies(401, NoTag, NoBody, st, nt, pw)
        ELSE Replies(204, NoTag, NoBody, st, nt, req.body.text[1])

Serve(req, st, nt, pw) ==
    CASE req.url \in {GroupsURL, UsersURL} -> ServeList(req, st, nt, pw)
      [] req.url = PasswordURL -> ServePassword(req, st, nt, pw)
      [] req.method = "GET" -> ServeGet(req, st, nt, pw)
      [] req.method = "PUT" -> ServePut(req, st, nt, pw)
      [] req.method = "DELETE" -> ServeDelete(req, st, nt, pw)

(***************************************************************************)
(* State.                                                                  *)
(***************************************************************************)
VARIABLES
    store,       \* server: the group and the user resource
    nextTag,     \* server: the next fresh version token
    password,    \* server: the user's password
    pc,          \* per client: "idle", the fetch it awaits, or "done"
    call,        \* per client: the function called and its arguments
    sent,        \* per client: the requests this call has issued, in order
    old,         \* per client: editObject's old, as getObject returned it
    data,        \* per client: editObject's data after the loop
    result,      \* per client: what the call returned or threw
    calls,       \* calls started so far
    applied,     \* per client: the server changed its state for this call
    interfered,  \* per client: another call changed the resource between
                 \* this edit's read and its write
    replies,     \* per client: the responses this call has resumed with
    seen,        \* per client: the resource as the server found it when it
                 \* handled the call's latest request
    accepted     \* the writes and deletes the server accepted, in order

server == <<store, nextTag, password>>
locals == <<old, data>>
history == <<applied, interfered, replies, seen, accepted>>
vars == <<store, nextTag, password, pc, call, sent, old, data, result,
          calls, applied, interfered, replies, seen, accepted>>

NoCall == [fn |-> "none", kind |-> "group", values |-> Undefined,
           etag |-> NoTag, password |-> NoPassword,
           oldpassword |-> NoPassword]

\* Awaiting without the await of editObject's write.
Awaiting_NoWrite == {"list49", "create69", "get96", "delete120", "edit138",
                     "setPassword296"}

Awaiting == {"list49", "create69", "get96", "delete120", "edit138",
             "edit146", "setPassword296"}

\* The request in flight.
Req(c) == sent[c][Len(sent[c])]

\* The version tokens a caller passes for a resource: none, the token the
\* resource started with (stale once the resource has changed), or its
\* current one.
InitialTag(kind) == IF kind = "group" THEN 1 ELSE 2
KnownTags(kind) == {NoTag, InitialTag(kind), store[kind].etag}

\* The stores a behaviour can start from: each resource absent, or present
\* with one of docs.
InitStores(docs) ==
    {[k \in Kinds |->
        IF k \in present THEN Resource(d[k], InitialTag(k))
        ELSE Absent] :
     present \in SUBSET Kinds, d \in [Kinds -> docs]}

InitWith(docs) ==
    /\ store \in InitStores(docs)
    /\ nextTag = 3
    /\ password = "p1"
    /\ pc = [c \in Clients |-> "idle"]
    /\ call = [c \in Clients |-> NoCall]
    /\ sent = [c \in Clients |-> <<>>]
    /\ old = [c \in Clients |-> NoObject]
    /\ data = [c \in Clients |-> EmptyDoc]
    /\ result = [c \in Clients |-> NoResult]
    /\ calls = 0
    /\ applied = [c \in Clients |-> FALSE]
    /\ interfered = [c \in Clients |-> FALSE]
    /\ replies = [c \in Clients |-> <<>>]
    /\ seen = [c \in Clients |-> Absent]
    /\ accepted = <<>>

(***************************************************************************)
(* The client.                                                             *)
(***************************************************************************)
\* await fetch(...): the request is sent and the function suspends at label,
\* or fetch rejects at once and the function throws.
Fetch(c, req, label) ==
    IF FetchRejects(req)
    THEN /\ pc' = [pc EXCEPT ![c] = "done"]
         /\ result' = [result EXCEPT ![c] = Failure(InvalidNameError)]
         /\ UNCHANGED sent
    ELSE /\ pc' = [pc EXCEPT ![c] = label]
         /\ sent' = [sent EXCEPT ![c] = Append(@, req)]
         /\ UNCHANGED result

\* A caller invokes a function of the library.
Begin(c, callrec, req, label) ==
    /\ calls < MaxCalls
    /\ calls' = calls + 1
    /\ call' = [call EXCEPT ![c] = callrec]
    /\ Fetch(c, req, label)
    /\ UNCHANGED <<server, locals, history>>

\* listGroups, listUsers
List(c) ==
    /\ pc[c] = "idle"
    /\ \E kind \in Kinds :
          Begin(c, [NoCall EXCEPT !.fn = "list", !.kind = kind],
                listRequest(ListURL(kind)), "list49")

\* createGroup, createUser
Create(c, docs) ==
    /\ pc[c] = "idle"
    /\ \E kind \in Kinds, values \in {Undefined} \cup {Given(d) : d \in docs} :
          Begin(c, [NoCall EXCEPT !.fn = "create", !.kind = kind,
                                  !.values = values],
                createRequest(DirURL(kind), values), "create69")

\* getGroup, getUser
Get(c) ==
    /\ pc[c] = "idle"
    /\ \E kind \in Kinds : \E etag \in KnownTags(kind) :
          Begin(c, [NoCall EXCEPT !.fn = "get", !.kind = kind, !.etag = etag],
                getRequest(GetURL(kind), etag), "get96")

\* deleteGroup, deleteUser
Delete(c) ==
    /\ pc[c] = "idle"
    /\ \E kind \in Kinds : \E etag \in KnownTags(kind) :
          Begin(c, [NoCall EXCEPT !.fn = "delete", !.kind = kind,
                                  !.etag = etag],
                deleteRequest(DirURL(kind), etag), "delete120")

\* The etag editObject is called with: editGroup passes none on.
EditEtag(kind, etag) == IF kind = "group" THEN NoTag ELSE etag

\* editGroup, editUser: editObject starts with getObject(url, etag).
Edit(c, patches) ==
    /\ pc[c] = "idle"
    /\ \E kind \in Kinds, values \in patches : \E etag \in KnownTags(kind) :
          Begin(c, [NoCall EXCEPT !.fn = "edit", !.kind = kind,
                                  !.values = Given(values), !.etag = etag],
                getRequest(DirURL(kind), EditEtag(kind, etag)), "edit138")

SetPassword(c) ==
    /\ pc[c] = "idle"
    /\ \E pw \in Passwords, oldpw \in Passwords \cup {NoPassword} :
          Begin(c, [NoCall EXCEPT !.fn = "setPassword", !.kind = "user",
                                  !.password = pw, !.oldpassword = oldpw],
                setPasswordRequest("u", pw, oldpw), "setPassword296")

\* getObject returning the etag it was called with.
getObject_EchoesEtag(r, etag) ==
    IF ~Ok(r) THEN Failure(Thrown(r))
    ELSE IF r.etag = NoTag THEN Failure(NoETagError)
    ELSE IF etag # NoTag /\ r.etag # etag THEN Failure(MismatchError)
    ELSE [Success EXCEPT !.object =
              [etag |-> etag, data |-> ParseJson(r.body)]]

\* getObject without the comparison of the two etags.
getObject_NoMismatchCheck(r, etag) ==
    IF ~Ok(r) THEN Failure(Thrown(r))
    ELSE IF r.etag = NoTag THEN Failure(NoETagError)
    ELSE [Success EXCEPT !.object =
              [etag |-> r.etag, data |-> ParseJson(r.body)]]

\* getObject without the test for a missing ETag header.
getObject_NoETagCheck(r, etag) ==
    IF ~Ok(r) THEN Failure(Thrown(r))
    ELSE IF etag # NoTag /\ r.etag # etag THEN Failure(MismatchError)
    ELSE [Success EXCEPT !.object =
              [etag |-> r.etag, data |-> ParseJson(r.body)]]

\* getObject from its fetch on: what it returns or throws.
getObject(r, etag) ==
    IF ~Ok(r) THEN Failure(Thrown(r))
    ELSE IF r.etag = NoTag THEN Failure(NoETagError)
    ELSE IF etag # NoTag /\ r.etag # etag THEN Failure(MismatchError)
    ELSE [Success EXCEPT !.object =
              [etag |-> r.etag, data |-> ParseJson(r.body)]]

\* The check of r.ok inverted.
Checked_Inverted(r) == IF ~Ok(r) THEN Success ELSE Failure(Thrown(r))

\* if(!r.ok) throw httpError(r), the end of the writing functions.
Checked(r) == IF Ok(r) THEN Success ELSE Failure(Thrown(r))

listObjects(r) ==
    IF ~Ok(r) THEN Failure(Thrown(r))
    ELSE [Success EXCEPT !.strings = ListStrings(r.body.text)]

Finish(c, res) ==
    /\ pc' = [pc EXCEPT ![c] = "done"]
    /\ result' = [result EXCEPT ![c] = res]
    /\ UNCHANGED <<sent, locals>>

\* EditMerge going on to the write when getObject has thrown.
EditMerge_WritesAnyway(c, got) ==
    LET merged == ApplyValues(got.object.data, call[c].values.obj)
    IN  /\ old' = [old EXCEPT ![c] = got.object]
        /\ data' = [data EXCEPT ![c] = merged]
        /\ Fetch(c, putRequest(Req(c).url, got.object, merged), "edit146")

\* editObject after its getObject: throw, or merge and issue the write.
EditMerge(c, got) ==
    IF got.state = "error" THEN Finish(c, got)
    ELSE LET merged == ApplyValues(got.object.data, call[c].values.obj)
         IN  /\ old' = [old EXCEPT ![c] = got.object]
             /\ data' = [data EXCEPT ![c] = merged]
             /\ Fetch(c, putRequest(Req(c).url, got.object, merged),
                      "edit146")

\* The suspended function of client c resumes with response r and runs on
\* to its next await or to its end.
Resume(c, r) ==
    /\ replies' = [replies EXCEPT ![c] = Append(@, r)]
    /\ CASE pc[c] = "list49" -> Finish(c, listObjects(r))
         [] pc[c] = "get96" -> Finish(c, getObject(r, call[c].etag))
         [] pc[c] = "edit138" ->
              EditMerge(c, getObject(r, EditEtag(call[c].kind, call[c].etag)))
         [] OTHER -> Finish(c, Checked(r))
    /\ UNCHANGED <<call, calls>>

\* The caller has its result; the client is free for another call.
Return(c) ==
    /\ pc[c] = "done"
    /\ pc' = [pc EXCEPT ![c] = "idle"]
    /\ call' = [call EXCEPT ![c] = NoCall]
    /\ sent' = [sent EXCEPT ![c] = <<>>]
    /\ old' = [old EXCEPT ![c] = NoObject]
    /\ data' = [data EXCEPT ![c] = EmptyDoc]
    /\ result' = [result EXCEPT ![c] = NoResult]
    /\ applied' = [applied EXCEPT ![c] = FALSE]
    /\ interfered' = [interfered EXCEPT ![c] = FALSE]
    /\ replies' = [replies EXCEPT ![c] = <<>>]
    /\ seen' = [seen EXCEPT ![c] = Absent]
    /\ UNCHANGED <<server, calls, accepted>>

(***************************************************************************)
(* The network and the server.  The server handles one request at a time;  *)
(* the client's continuation touches nothing but the client's own state,   *)
(* so it is run in the step that handles the request.                      *)
(***************************************************************************)
\* An edit whose read the server has answered and whose write it has not
\* yet handled.
BetweenReadAndWrite(c) == pc[c] = "edit146"

\* The server handles the request in flight of client c, with outcome o.
Handle(c, o) ==
    LET kind == ResourceOf(Req(c).url)
        changed == o.store # store
    IN  /\ store' = o.store
        /\ nextTag' = o.nextTag
        /\ password' = o.password
        /\ applied' = [applied EXCEPT
                          ![c] = @ \/ changed \/ o.password # password]
        /\ interfered' =
               [d \in Clients |->
                   \/ interfered[d]
                   \/ /\ d # c
                      /\ changed
                      /\ BetweenReadAndWrite(d)
                      /\ call[d].kind = kind]
        /\ seen' = [seen EXCEPT ![c] = IF kind = "none" THEN Absent
                                       ELSE store[kind]]
        /\ accepted' =
               IF changed
               THEN Append(accepted,
                           [method |-> Req(c).method, kind |-> kind,
                            tag |-> IF HasHeader(Req(c), IfMatch)
                                    THEN Req(c).headers[IfMatch]
                                    ELSE NoTag])
               ELSE accepted

\* The request of client c reaches the server and the response reaches c.
Deliver(c) ==
    /\ pc[c] \in Awaiting
    /\ \E o \in Serve(Req(c), store, nextTag, password) :
          Handle(c, o) /\ Resume(c, o.resp)

\* The transport fails before the request has reached the server: fetch
\* rejects.
Drop(c) ==
    /\ pc[c] \in Awaiting
    /\ Resume(c, NetworkFailure)
    /\ UNCHANGED <<server, applied, interfered, seen, accepted>>

\* The transport fails after the server has handled the request: the
\* response is lost, and fetch rejects just the same.
Lose(c) ==
    /\ pc[c] \in Awaiting
    /\ \E o \in Serve(Req(c), store, nextTag, password) :
          Handle(c, o) /\ Resume(c, NetworkFailure)

Next ==
    \E c \in Clients :
        \/ List(c)
        \/ Create(c, NarrowDocs)
        \/ Get(c)
        \/ Delete(c)
        \/ Edit(c, NarrowPatches)
        \/ SetPassword(c)
        \/ Return(c)
        \/ Deliver(c)
        \/ Drop(c)
        \/ Lose(c)

Init == InitWith(NarrowDocs)

Spec == Init /\ [][Next]_vars

\* Every request in flight is settled in the end: its response arrives or
\* its fetch rejects.
Settle(c) == Deliver(c) \/ Drop(c) \/ Lose(c)

FairSpec == Spec /\ \A c \in Clients : WF_vars(Settle(c))

(***************************************************************************)
(* Listings.  One client lists a collection that holds any names: a name   *)
(* is a non-empty string with no line-feed in it.                          *)
(***************************************************************************)
Solo == {"c1"}

Names == {<<"x">>, <<"y">>, <<"x", "y">>, <<"y", "x", "x">>}
NameSeqs == UNION {[1..n -> Names] : n \in 1..MaxNames}

\* The server answers the list request of client c with a listing.
DeliverListing(c) ==
    /\ pc[c] = "list49"
    /\ \E names \in NameSeqs : \E b \in ListBodies(names) :
          Resume(c, Response(200, ReasonPhrase(200), NoTag, TextBody(b)))
    /\ UNCHANGED <<server, applied, interfered, seen, accepted>>

NextList == \E c \in Solo : List(c) \/ DeliverListing(c) \/ Return(c)

SpecList == Init /\ [][NextList]_vars

(***************************************************************************)
(* Failed responses.  One client calls the library and the server answers  *)
(* with any error status, with or without a reason phrase.                 *)
(***************************************************************************)
FailStatuses == {400, 401, 403, 404, 409, 412, 428, 500, 503}
OwnPhrase == "Denied"
FailTexts(status) == {"", OwnPhrase, ReasonPhrase(status)}

\* The server answers the request in flight of client c with an error.
DeliverFailure(c) ==
    /\ pc[c] \in Awaiting
    /\ \E status \in FailStatuses : \E text \in FailTexts(status) :
          Resume(c, Response(status, text, NoTag, NoBody))
    /\ UNCHANGED <<server, applied, interfered, seen, accepted>>

NextError ==
    \E c \in Solo :
        \/ List(c)
        \/ Get(c)
        \/ Delete(c)
        \/ Edit(c, NarrowPatches)
        \/ SetPassword(c)
        \/ DeliverFailure(c)
        \/ Return(c)

SpecError == Init /\ [][NextError]_vars

(***************************************************************************)
(* Merging.  One client makes one edit, with any patch, of a resource that *)
(* holds any document.                                                     *)
(***************************************************************************)
InitMerge == InitWith(Docs)

NextMerge == \E c \in Solo : Edit(c, Patches) \/ Deliver(c)

SpecMerge == InitMerge /\ [][NextMerge]_vars

(***************************************************************************)
(* Properties.                                                             *)
(***************************************************************************)
Done(c) == pc[c] = "done"
Fn(c) == call[c].fn
Kind(c) == call[c].kind
Failed(c) == Done(c) /\ result[c].state = "error"
Succeeded(c) == Done(c) /\ result[c].state = "ok"
\* The call issued its n-th request and resumed with an HTTP response to it.
Answered(c, n) == Len(replies[c]) >= n /\ replies[c][n].kind = "http"
\* The keys a patch mentions.
Mentioned(values) == {k \in Keys : values[k] # Missing}
\* The edit has issued its write.
Wrote(c) == Fn(c) = "edit" /\ Len(sent[c]) = 2

\* C1: two edits of one resource that read the same version and change
\* disjoint keys end with exactly one success and one Conflict, and the
\* stored document is the winner's merged document.
C1_RaceHasOneWinner ==
    \A c, d \in Clients :
        ( /\ c # d
          /\ Done(c) /\ Done(d)
          /\ Wrote(c) /\ Wrote(d)
          /\ Kind(c) = Kind(d)
          /\ old[c].etag = old[d].etag
          /\ Mentioned(call[c].values.obj) \cap Mentioned(call[d].values.obj)
                = {}
          /\ Answered(c, 2) /\ Answered(d, 2) )
        => \E w \in {c, d} :
              LET l == CHOOSE x \in {c, d} : x # w
              IN  /\ result[w].state = "ok"
                  /\ result[l].state = "error"
                  /\ IsConflict(result[l].error)
                  /\ store[Kind(w)].exists
                  /\ store[Kind(w)].data = data[w]

\* C2: the server accepts the write of an edit only if no other write or
\* delete of the resource was accepted between the edit's read and its write.
C2_WriteOnlyIfUnchanged ==
    \A c \in Clients : (Fn(c) = "edit" /\ applied[c]) => ~interfered[c]

\* An edit's write was accepted, and another edit of the same resource, whose
\* read came before that write, ended in a Conflict.
C2_Witness ==
    \E c, d \in Clients :
        /\ c # d
        /\ Wrote(c) /\ applied[c]
        /\ Wrote(d) /\ Kind(d) = Kind(c)
        /\ interfered[d]
        /\ Failed(d) /\ IsConflict(result[d].error)

\* C3: after an edit has succeeded and no other write has followed it, the
\* resource holds the document the edit read with the patch applied.
C3_EditStoresMerged ==
    \A c \in Clients :
        ( /\ Succeeded(c)
          /\ Wrote(c)
          /\ accepted # <<>>
          /\ accepted[Len(accepted)] =
                [method |-> "PUT", kind |-> Kind(c), tag |-> old[c].etag] )
        => /\ store[Kind(c)].exists
           /\ store[Kind(c)].data
                 = ApplyValues(old[c].data, call[c].values.obj)

\* C4: the write of an edit goes to the URL of its read, with the version
\* token of the read's response as its If-Match, whether or not the caller
\* gave an expected version.
C4_WriteCarriesReadVersion ==
    \A c \in Clients :
        Wrote(c) =>
            LET r == sent[c][1]
                w == sent[c][2]
            IN  /\ r.method = "GET"
                /\ w.method = "PUT"
                /\ w.url = r.url
                /\ replies[c][1].etag # NoTag
                /\ HasHeader(w, IfMatch)
                /\ w.headers[IfMatch] = replies[c][1].etag

\* Two edits have issued their writes, one called with an expected version
\* and one without.
C4_Witness ==
    \E c, d \in Clients :
        /\ Wrote(c) /\ Kind(c) = "user" /\ call[c].etag # NoTag
        /\ Wrote(d) /\ call[d].etag = NoTag

\* C5 as claimed: an edit that fails, for whatever reason, has left the
\* resource unchanged.
C5_FailedEditChangesNothing ==
    \A c \in Clients : (Fn(c) = "edit" /\ Failed(c)) => ~applied[c]

\* C5, amended: an edit that fails for any reason but a transport failure of
\* its write has left the resource unchanged.
C5_FailedEditChangesNothingUnlessWriteLost ==
    \A c \in Clients :
        ( /\ Fn(c) = "edit"
          /\ Failed(c)
          /\ ~(Wrote(c) /\ result[c].error = FetchFailedError) )
        => ~applied[c]

\* An edit failed on its write with a Conflict, after another call had
\* changed the resource.
C5_Witness ==
    \E c \in Clients :
        /\ Wrote(c) /\ Failed(c) /\ IsConflict(result[c].error)
        /\ interfered[c]
        /\ accepted # <<>>

\* C6: an edit issues one read and at most one write, the write only after
\* the read was answered, and nothing after the write; every other function
\* issues exactly one request.
C6_RequestCounts ==
    \A c \in Clients :
        /\ Len(sent[c]) <= 2
        /\ Len(sent[c]) = 2 =>
              /\ Fn(c) = "edit"
              /\ sent[c][1].method = "GET"
              /\ sent[c][2].method = "PUT"
              /\ Len(replies[c]) >= 1
              /\ Ok(replies[c][1])
        /\ Done(c) => Len(sent[c]) >= 1
        /\ (Done(c) /\ Fn(c) # "edit") => Len(sent[c]) = 1

\* C7: a version token is good for one conditioned write: the write that
\* finds the token still current succeeds, a write with a stale token fails
\* with a Conflict, and no two accepted writes carry the same token.
C7_TokenGoodForOneWrite ==
    /\ \A i, j \in 1..Len(accepted) :
          ( /\ i # j
            /\ accepted[i].method = "PUT"
            /\ accepted[j].method = "PUT"
            /\ accepted[i].tag # NoTag )
          => accepted[i].tag # accepted[j].tag
    /\ \A c \in Clients :
          (Done(c) /\ Wrote(c) /\ Answered(c, 2)) =>
              IF seen[c].exists /\ seen[c].etag = old[c].etag
              THEN result[c].state = "ok"
              ELSE result[c].state = "error" /\ IsConflict(result[c].error)

\* C8: a create whose request was answered has either succeeded and stored
\* its payload (nothing was there), or failed with a Conflict and changed
\* nothing (something was there).
C8_CreateStoresOrConflicts ==
    \A c \in Clients :
        (Done(c) /\ Fn(c) = "create"
            /\ result[c].error # FetchFailedError) =>
            \/ /\ result[c].state = "ok"
               /\ applied[c]
               /\ accepted[Len(accepted)] =
                     [method |-> "PUT", kind |-> Kind(c), tag |-> NoTag] =>
                     store[Kind(c)].data =
                         (IF call[c].values.given THEN call[c].values.obj
                          ELSE EmptyDoc)
            \/ /\ result[c].state = "error"
               /\ IsConflict(result[c].error)
               /\ ~applied[c]

\* C9: a delete with a version that is not the resource's current one fails
\* with a Conflict and leaves the resource as it was.
C9_StaleRemoveConflicts ==
    \A c \in Clients :
        ( /\ Done(c)
          /\ Fn(c) = "delete"
          /\ call[c].etag # NoTag
          /\ Answered(c, 1)
          /\ seen[c].exists
          /\ seen[c].etag # call[c].etag )
        => /\ result[c].state = "error"
           /\ IsConflict(result[c].error)
           /\ ~applied[c]

\* A delete with the token the resource started with came after an edit had
\* been accepted, and failed with a Conflict.
C9_Witness ==
    \E c \in Clients :
        /\ Done(c)
        /\ Fn(c) = "delete"
        /\ call[c].etag = InitialTag(Kind(c))
        /\ Answered(c, 1)
        /\ seen[c].exists
        /\ seen[c].etag # call[c].etag
        /\ IsConflict(result[c].error)
        /\ store[Kind(c)] = seen[c]

\* The latest accepted request on a resource, if any, is a DELETE.
LastAcceptedIsDelete(kind) ==
    \E i \in 1..Len(accepted) :
        /\ accepted[i].kind = kind
        /\ accepted[i].method = "DELETE"
        /\ \A j \in (i + 1)..Len(accepted) : accepted[j].kind # kind

\* C10: a delete called with no version carries no precondition; when the
\* resource exists as the server handles it, the delete succeeds and the
\* resource is gone, whatever was written to it before.
C10_UnconditionalRemove ==
    \A c \in Clients :
        (Fn(c) = "delete" /\ call[c].etag = NoTag /\ Len(sent[c]) = 1) =>
            /\ ~HasHeader(sent[c][1], IfMatch)
            /\ ~HasHeader(sent[c][1], IfNoneMatch)
            /\ (Done(c) /\ Answered(c, 1) /\ seen[c].exists) =>
                  /\ result[c].state = "ok"
                  /\ applied[c]
                  /\ LastAcceptedIsDelete(Kind(c)) => ~store[Kind(c)].exists
                  /\ \E i \in 1..Len(accepted) :
                        accepted[i] = [method |-> "DELETE", kind |-> Kind(c),
                                       tag |-> NoTag]

\* A delete with no version removed a resource that another call had
\* written since the start.
C10_Witness ==
    \E c \in Clients :
        /\ Done(c)
        /\ Fn(c) = "delete"
        /\ call[c].etag = NoTag
        /\ result[c].state = "ok"
        /\ seen[c].exists
        /\ seen[c].etag # InitialTag(Kind(c))
        /\ ~store[Kind(c)].exists

\* C11: a read called with an expected version returns, when it succeeds, an
\* object of that version; when the server answers with success and another
\* version, the read fails with the mismatch error and returns no data.
C11_ReadReturnsExpectedVersion ==
    \A c \in Clients :
        (Done(c) /\ Fn(c) = "get" /\ call[c].etag # NoTag) =>
            /\ Succeeded(c) => result[c].object.etag = call[c].etag
            /\ ( /\ Answered(c, 1)
                 /\ Ok(replies[c][1])
                 /\ replies[c][1].etag # NoTag
                 /\ replies[c][1].etag # call[c].etag )
               => result[c] = Failure(MismatchError)

\* A read with the token the resource started with got a success response
\* carrying the resource's newer version, and failed with the mismatch error.
C11_Witness ==
    \E c \in Clients :
        /\ Done(c)
        /\ Fn(c) = "get"
        /\ call[c].etag = InitialTag(Kind(c))
        /\ Answered(c, 1)
        /\ Ok(replies[c][1])
        /\ replies[c][1].etag \notin {NoTag, call[c].etag}
        /\ result[c].error = MismatchError

\* C12: a read, alone or as the first step of an edit, whose response has a
\* success status and no ETag fails with the missing-ETag error, which is
\* not an error made by httpError, returns no data and issues no write.
C12_MissingETagIsProtocolViolation ==
    \A c \in Clients :
        ( /\ Fn(c) \in {"get", "edit"}
          /\ Answered(c, 1)
          /\ Ok(replies[c][1])
          /\ replies[c][1].etag = NoTag )
        => /\ Done(c)
           /\ result[c] = Failure(NoETagError)
           /\ result[c].error.message # ServerSaid
           /\ result[c].error # httpError(replies[c][1])
           /\ result[c].object = NoObject
           /\ Len(sent[c]) = 1

\* A read of a resource that exists was answered 200 with no ETag header.
C12_Witness ==
    \E c \in Clients :
        /\ Done(c)
        /\ Fn(c) = "get"
        /\ Answered(c, 1)
        /\ replies[c][1].status = 200
        /\ replies[c][1].etag = NoTag
        /\ replies[c][1].body = JsonBody(seen[c].data)
        /\ result[c].error = NoETagError

\* C13: listing a body made of one or more names joined by line-feeds, with
\* or without a line-feed after the last, returns the names in their order.
C13_ListRoundTrip ==
    \A c \in Clients :
        (Done(c) /\ Fn(c) = "list" /\ Answered(c, 1) /\ Ok(replies[c][1])) =>
            \A names \in NameSeqs :
                replies[c][1].body.text \in ListBodies(names) =>
                    /\ result[c].state = "ok"
                    /\ result[c].strings = names

\* A listing of several names whose body ends in a line-feed was returned as
\* that many strings.
C13_Witness ==
    \E c \in Clients :
        /\ Done(c)
        /\ Fn(c) = "list"
        /\ Answered(c, 1)
        /\ LET t == replies[c][1].body.text
           IN  /\ Len(t) > 0
               /\ t[Len(t)] = LF
               /\ \E names \in NameSeqs :
                     /\ Len(names) = MaxNames
                     /\ t = JoinLF(names) \o <<LF>>
                     /\ result[c].strings = names

\* C14: a call that got a failed response ends with the error of httpError:
\* it carries the status and, as its reason, the response's reason phrase
\* when there is one, else Unauthorised for 401, Forbidden for 403, Not
\* Found for 404 and nothing but the status for any other code.
C14_ErrorCarriesStatusAndReason ==
    \A c \in Clients :
        (Done(c) /\ Len(replies[c]) >= 1
            /\ replies[c][Len(replies[c])].kind = "http"
            /\ ~Ok(replies[c][Len(replies[c])])) =>
            LET r == replies[c][Len(replies[c])]
                e == result[c].error
            IN  /\ result[c].state = "error"
                /\ e.message = ServerSaid
                /\ e.status = r.status
                /\ r.statusText # "" => e.text = r.statusText
                /\ (r.statusText = "" /\ r.status = 401) =>
                       e.text = "Unauthorised"
                /\ (r.statusText = "" /\ r.status = 403) =>
                       e.text = "Forbidden"
                /\ (r.statusText = "" /\ r.status = 404) =>
                       e.text = "Not Found"
                /\ (r.statusText = "" /\ r.status \notin {401, 403, 404}) =>
                       e.text = ""

\* A call was answered 403 with no reason phrase and threw an error whose
\* reason is Forbidden.
C14_Witness ==
    \E c \in Clients :
        /\ Done(c)
        /\ Answered(c, 1)
        /\ replies[c][1].status = 403
        /\ replies[c][1].statusText = ""
        /\ result[c].error.status = 403
        /\ result[c].error.text = "Forbidden"

\* C15: in the document an edit has merged, every key the patch gives a
\* value, 0 included, has that value, and a key that was read is missing
\* only if the patch gives it null.
C15_MergeSetsEveryValue ==
    \A c \in Clients :
        Wrote(c) =>
            \A k \in Keys :
                LET v == call[c].values.obj[k]
                IN  /\ v \notin {Missing, Null} => data[c][k] = v
                    /\ v = Null => data[c][k] = Missing
                    /\ (old[c].data[k] # Missing /\ data[c][k] = Missing)
                          => v = Null

\* C16: in the document an edit has merged, every key the patch does not
\* mention has the value that was read, and a key that is there was read
\* or is in the patch.
C16_MergeKeepsTheRest ==
    \A c \in Clients :
        Wrote(c) =>
            \A k \in Keys :
                LET v == call[c].values.obj[k]
                IN  /\ v = Missing => data[c][k] = old[c].data[k]
                    /\ data[c][k] # Missing =>
                          (old[c].data[k] # Missing \/ v # Missing)

\* An edit has merged a patch that sets one key into a document that holds
\* a value under another key, which the patch does not mention.
C16_Witness ==
    \E c \in Clients : \E j, k \in Keys :
        /\ Wrote(c)
        /\ j # k
        /\ call[c].values.obj[j] = MaxVal
        /\ call[c].values.obj[k] = Missing
        /\ old[c].data[k] = MaxVal
        /\ old[c].data[j] = Missing
        /\ data[c][k] = MaxVal
        /\ data[c][j] = MaxVal

\* C17: the read of an edit called with an expected version carries that
\* version as its condition, and the edit goes on to its write only if the
\* read returned that version.
C17_EditReadIsConditioned ==
    \A c \in Clients :
        (Fn(c) = "edit" /\ call[c].etag # NoTag /\ Len(sent[c]) >= 1) =>
            /\ HasHeader(sent[c][1], IfMatch)
            /\ sent[c][1].headers[IfMatch] = call[c].etag
            /\ Wrote(c) => replies[c][1].etag = call[c].etag

\* The error the read of an edit ends with, given its request and the
\* response it resumed with; NoError when the read succeeds.
ReadFailure(c) ==
    LET q == sent[c][1]
        r == replies[c][1]
    IN  IF r.kind = "failed" THEN FetchFailedError
        ELSE IF r.status \notin 200..299 THEN httpError(r)
        ELSE IF r.etag = NoTag THEN NoETagError
        ELSE IF HasHeader(q, IfMatch) /\ q.headers[IfMatch] # r.etag
        THEN MismatchError
        ELSE NoError

\* C18: an edit whose read fails (transport failure, error status, no ETag,
\* mismatched ETag) has ended with the error of the read, has issued no
\* write and has changed nothing.
C18_FailedReadStopsEdit ==
    \A c \in Clients :
        (Fn(c) = "edit" /\ Len(replies[c]) >= 1
            /\ ReadFailure(c) # NoError) =>
            /\ Done(c)
            /\ result[c] = Failure(ReadFailure(c))
            /\ Len(sent[c]) = 1
            /\ sent[c][1].method = "GET"
            /\ ~applied[c]

\* An edit called with a stale version got a success response with the
\* resource's newer version, and ended with the mismatch error after its
\* one request.
C18_Witness ==
    \E c \in Clients :
        /\ Done(c)
        /\ Fn(c) = "edit"
        /\ Answered(c, 1)
        /\ Ok(replies[c][1])
        /\ replies[c][1].etag \notin {NoTag, call[c].etag}
        /\ result[c].error = MismatchError
        /\ Len(sent[c]) = 1

\* C19: when every request is settled in the end, a call that awaits a
\* response always comes to its end, with success or with one error.
C19_EveryCallCompletes ==
    \A c \in Clients :
        (pc[c] \in Awaiting) ~>
            (pc[c] = "done" /\ result[c].state \in {"ok", "error"})

\* An edit has ended with a Conflict on its write, after another client
\* changed the resource between its read and its write.
C19_Witness ==
    \E c \in Clients :
        /\ Done(c)
        /\ Wrote(c)
        /\ interfered[c]
        /\ Len(replies[c]) = 2
        /\ result[c].state = "error"
        /\ IsConflict(result[c].error)

====
